---- MODULE Spec2Model ----
(***************************************************************************)
(* Rock-Paper-Scissors-Plus game referee: the rule engine                  *)
(* (game_logic.py), the state tools (game_tools.py) and the agent's        *)
(* input handler (main.py, GameRefereeAgent.process_user_input).           *)
(*                                                                         *)
(* Python objects are modelled with their identity where the code shares   *)
(* them: a session's state dict holds a REFERENCE to its history list, and *)
(* `lists` maps each list object to its current contents.  Input text is a *)
(* tuple of one-character strings, so that lower() and strip() are         *)
(* computed and not assumed.                                               *)
(***************************************************************************)
EXTENDS Integers, Sequences, FiniteSets, TLC

VARIABLES state, lists, response

vars == <<state, lists, response>>

(***************************************************************************)
(* Bounds of the model.                                                    *)
(***************************************************************************)
\* a round is played only while the history list holds fewer records than this
MaxPlayed == 3
\* a round is forfeited only while the history list holds fewer records than this
MaxHistory == 4
\* with several matches side by side, a round is played or forfeited only
\* while the history list holds fewer records than this
MaxSharedHistory == 3
\* number of GameRefereeAgent objects alive in the multi-match specification
NumAgents == 2
\* most records in the history list in the snapshot-tool specification
MaxToolHistory == 3
\* most records in the history list in the validation-tool specification
MaxValidateHistory == 3
\* largest round index handed to generate_bot_move in the rules specification
MaxRoundIndex == 3

(***************************************************************************)
(* config.py                                                               *)
(***************************************************************************)
VALID_MOVES == <<"rock", "paper", "scissors", "bomb">>

MAX_ROUNDS == 3

\* WIN_MATRIX, restricted to the keys determine_winner looks up
\* (it returns before the lookup when either move is bomb)
WIN_MATRIX == [m \in {"rock", "paper", "scissors"} |->
                 CASE m = "rock" -> "scissors"
                   [] m = "paper" -> "rock"
                   [] m = "scissors" -> "paper"]

\* Python's None
None == "None"

\* identity of the list object created by the literal [] in DEFAULT_STATE
DefaultHistoryList == 0

DEFAULT_STATE == [round |-> 0,
                  user_score |-> 0,
                  bot_score |-> 0,
                  user_bomb_used |-> FALSE,
                  bot_bomb_used |-> FALSE,
                  game_over |-> FALSE,
                  winner |-> None,
                  history |-> DefaultHistoryList]

\* dict.copy(): a new dict with the same values; a value that is a list is
\* copied by reference, so the copy's "history" is the same list object
DictCopy(d) == d

(***************************************************************************)
(* Text: str.lower(), str.strip(), and the spelling of the move names.     *)
(***************************************************************************)
Whitespace == {" ", "\t"}

LowerChar(c) ==
    CASE c = "B" -> "b" [] c = "O" -> "o" [] c = "M" -> "m"
      [] c = "P" -> "p" [] c = "R" -> "r" [] c = "Q" -> "q"
      [] OTHER -> c

lower(t) == [i \in 1..Len(t) |-> LowerChar(t[i])]

RECURSIVE lstrip(_)
lstrip(t) == IF t # <<>> /\ Head(t) \in Whitespace THEN lstrip(Tail(t)) ELSE t

RECURSIVE rstrip(_)
rstrip(t) == IF t # <<>> /\ t[Len(t)] \in Whitespace
             THEN rstrip(SubSeq(t, 1, Len(t) - 1)) ELSE t

strip(t) == rstrip(lstrip(t))

Spelling(name) ==
    CASE name = "rock" -> <<"r", "o", "c", "k">>
      [] name = "paper" -> <<"p", "a", "p", "e", "r">>
      [] name = "scissors" -> <<"s", "c", "i", "s", "s", "o", "r", "s">>
      [] name = "bomb" -> <<"b", "o", "m", "b">>
      [] name = "quit" -> <<"q", "u", "i", "t">>
      [] name = "exit" -> <<"e", "x", "i", "t">>
      [] name = "q" -> <<"q">>
      [] name = "new game" -> <<"n", "e", "w", " ", "g", "a", "m", "e">>
      [] name = "restart" -> <<"r", "e", "s", "t", "a", "r", "t">>
      [] name = "reset" -> <<"r", "e", "s", "e", "t">>

\* the texts the model submits: a classic move and the bomb in mixed case and
\* padded, an unknown word, and the reset and quit commands
InputTexts ==
    { <<"R", "o", "c", "k", " ">>,
      <<" ", "B", "O", "M", "B">>,
      <<"x">>,
      <<"R", "e", "s", "e", "t", " ">>,
      <<"q">> }

(***************************************************************************)
(* game_logic.py                                                           *)
(***************************************************************************)
InValidMoves(t) == \E i \in 1..Len(VALID_MOVES) : Spelling(VALID_MOVES[i]) = t

normalize_move(move) ==
    IF move = <<>> THEN None
    ELSE LET normalized == strip(lower(move))
         IN  IF InValidMoves(normalized)
             THEN VALID_MOVES[CHOOSE i \in 1..Len(VALID_MOVES) :
                                  Spelling(VALID_MOVES[i]) = normalized]
             ELSE None

\* normalize_move of each input text (evaluated once, looked up by the tools)
Normalized == [t \in InputTexts |-> normalize_move(t)]

\* mutant: the branch for the bot's bomb is missing
Mutant_determine_winner_NoBotBomb(user_move, bot_move) ==
    IF user_move = "bomb" /\ bot_move = "bomb"
    THEN [winner |-> "draw", reason |-> <<"BothBomb">>, bomb_used |-> TRUE]
    ELSE IF user_move = "bomb"
    THEN [winner |-> "user", reason |-> <<"UserBomb", bot_move>>, bomb_used |-> TRUE]
    ELSE IF user_move = bot_move
    THEN [winner |-> "draw", reason |-> <<"BothChose", user_move>>, bomb_used |-> FALSE]
    ELSE IF WIN_MATRIX[user_move] = bot_move
    THEN [winner |-> "user", reason |-> <<"Beats", user_move, bot_move>>, bomb_used |-> FALSE]
    ELSE [winner |-> "bot", reason |-> <<"Beats", bot_move, user_move>>, bomb_used |-> FALSE]

\* mutant: the win matrix is looked up with the bot's move
Mutant_determine_winner_WrongKey(user_move, bot_move) ==
    IF user_move = "bomb" /\ bot_move = "bomb"
    THEN [winner |-> "draw", reason |-> <<"BothBomb">>, bomb_used |-> TRUE]
    ELSE IF user_move = "bomb"
    THEN [winner |-> "user", reason |-> <<"UserBomb", bot_move>>, bomb_used |-> TRUE]
    ELSE IF bot_move = "bomb"
    THEN [winner |-> "bot", reason |-> <<"BotBomb", user_move>>, bomb_used |-> TRUE]
    ELSE IF user_move = bot_move
    THEN [winner |-> "draw", reason |-> <<"BothChose", user_move>>, bomb_used |-> FALSE]
    ELSE IF WIN_MATRIX[bot_move] = user_move
    THEN [winner |-> "user", reason |-> <<"Beats", user_move, bot_move>>, bomb_used |-> FALSE]
    ELSE [winner |-> "bot", reason |-> <<"Beats", bot_move, user_move>>, bomb_used |-> FALSE]

\* mutant: the last branch reports a draw
Mutant_determine_winner_DrawElse(user_move, bot_move) ==
    IF user_move = "bomb" /\ bot_move = "bomb"
    THEN [winner |-> "draw", reason |-> <<"BothBomb">>, bomb_used |-> TRUE]
    ELSE IF user_move = "bomb"
    THEN [winner |-> "user", reason |-> <<"UserBomb", bot_move>>, bomb_used |-> TRUE]
    ELSE IF bot_move = "bomb"
    THEN [winner |-> "bot", reason |-> <<"BotBomb", user_move>>, bomb_used |-> TRUE]
    ELSE IF user_move = bot_move
    THEN [winner |-> "draw", reason |-> <<"BothChose", user_move>>, bomb_used |-> FALSE]
    ELSE IF WIN_MATRIX[user_move] = bot_move
    THEN [winner |-> "user", reason |-> <<"Beats", user_move, bot_move>>, bomb_used |-> FALSE]
    ELSE [winner |-> "draw", reason |-> <<"Beats", bot_move, user_move>>, bomb_used |-> FALSE]

determine_winner(user_move, bot_move) ==
    IF user_move = "bomb" /\ bot_move = "bomb"
    THEN [winner |-> "draw", reason |-> <<"BothBomb">>, bomb_used |-> TRUE]
    ELSE IF user_move = "bomb"
    THEN [winner |-> "user", reason |-> <<"UserBomb", bot_move>>, bomb_used |-> TRUE]
    ELSE IF bot_move = "bomb"
    THEN [winner |-> "bot", reason |-> <<"BotBomb", user_move>>, bomb_used |-> TRUE]
    ELSE IF user_move = bot_move
    THEN [winner |-> "draw", reason |-> <<"BothChose", user_move>>, bomb_used |-> FALSE]
    ELSE IF WIN_MATRIX[user_move] = bot_move
    THEN [winner |-> "user", reason |-> <<"Beats", user_move, bot_move>>, bomb_used |-> FALSE]
    ELSE [winner |-> "bot", reason |-> <<"Beats", bot_move, user_move>>, bomb_used |-> FALSE]

normal_moves == <<"rock", "paper", "scissors">>

\* random.random() in percent; the draws cover both sides of each threshold
RandomDraws == {10, 30, 50, 80}

\* mutant: the round-1 test sits outside the "if not bot_bomb_used" block
Mutant_generate_bot_move_Dedent(user_bomb_used, bot_bomb_used, current_round, r, c) ==
    IF ~bot_bomb_used /\ current_round = 2 /\ ~user_bomb_used /\ r < 70
    THEN "bomb"
    ELSE IF ~bot_bomb_used /\ current_round = 0 /\ r < 20
    THEN "bomb"
    ELSE IF current_round = 1 /\ r < 40
    THEN "bomb"
    ELSE normal_moves[c]

\* mutant: the final-round test does not look at user_bomb_used
Mutant_generate_bot_move_FinalRound(user_bomb_used, bot_bomb_used, current_round, r, c) ==
    IF ~bot_bomb_used /\ current_round = 2 /\ r < 70
    THEN "bomb"
    ELSE IF ~bot_bomb_used /\ current_round = 0 /\ r < 20
    THEN "bomb"
    ELSE IF ~bot_bomb_used /\ current_round = 1 /\ r < 40
    THEN "bomb"
    ELSE normal_moves[c]

\* r is the value of the one random.random() call the function evaluates,
\* c the index random.choice picks
generate_bot_move(user_bomb_used, bot_bomb_used, current_round, r, c) ==
    IF ~bot_bomb_used /\ current_round = 2 /\ ~user_bomb_used /\ r < 70
    THEN "bomb"
    ELSE IF ~bot_bomb_used /\ current_round = 0 /\ r < 20
    THEN "bomb"
    ELSE IF ~bot_bomb_used /\ current_round = 1 /\ r < 40
    THEN "bomb"
    ELSE normal_moves[c]

\* mutant: a tie is awarded to the user (>= for >)
Mutant_calculate_final_winner(user_score, bot_score) ==
    IF user_score >= bot_score THEN "user"
    ELSE "bot"

calculate_final_winner(user_score, bot_score) ==
    IF user_score > bot_score THEN "user"
    ELSE IF bot_score > user_score THEN "bot"
    ELSE "tie"

(***************************************************************************)
(* game_tools.py.  Each tool is given the session's state dict st (and the *)
(* list heap where it mutates a list) and yields what it leaves behind.    *)
(* The "initialize state if needed" prologue of the tools never runs: a    *)
(* session's state is a non-empty dict from GameSession.__init__ on.       *)
(***************************************************************************)
\* mutant: the bomb-usage check is inverted (bomb rejected while unused)
Mutant_validate_move_tool_Inverted(st, move) ==
    LET normalized == Normalized[move]
    IN  IF normalized = None
        THEN [valid |-> FALSE, move |-> None,
              can_use_bomb |-> ~st.user_bomb_used,
              error |-> <<"InvalidMove", move>>]
        ELSE IF normalized = "bomb" /\ ~st.user_bomb_used
        THEN [valid |-> FALSE, move |-> None,
              can_use_bomb |-> FALSE,
              error |-> <<"BombAlreadyUsed">>]
        ELSE [valid |-> TRUE, move |-> normalized,
              can_use_bomb |-> ~st.user_bomb_used,
              error |-> None]

\* mutant: the bomb-usage check is missing
Mutant_validate_move_tool(st, move) ==
    LET normalized == Normalized[move]
    IN  IF normalized = None
        THEN [valid |-> FALSE, move |-> None,
              can_use_bomb |-> ~st.user_bomb_used,
              error |-> <<"InvalidMove", move>>]
        ELSE [valid |-> TRUE, move |-> normalized,
              can_use_bomb |-> ~st.user_bomb_used,
              error |-> None]

validate_move_tool(st, move) ==
    LET normalized == Normalized[move]
    IN  IF normalized = None
        THEN [valid |-> FALSE, move |-> None,
              can_use_bomb |-> ~st.user_bomb_used,
              error |-> <<"InvalidMove", move>>]
        ELSE IF normalized = "bomb" /\ st.user_bomb_used
        THEN [valid |-> FALSE, move |-> None,
              can_use_bomb |-> FALSE,
              error |-> <<"BombAlreadyUsed">>]
        ELSE [valid |-> TRUE, move |-> normalized,
              can_use_bomb |-> ~st.user_bomb_used,
              error |-> None]

resolve_round_tool(user_move, bot_move) ==
    LET result == determine_winner(user_move, bot_move)
    IN  [winner |-> result.winner, reason |-> result.reason,
         bomb_used |-> result.bomb_used,
         user_move |-> user_move, bot_move |-> bot_move]

\* mutant: a round won by the bot is credited to both sides
Mutant_UpdatedState_BothScores(st, winner, user_move, bot_move) ==
    [st EXCEPT !.round = st.round + 1,
               !.user_score = IF winner \in {"user", "bot"} THEN @ + 1 ELSE @,
               !.bot_score = IF winner = "bot" THEN @ + 1 ELSE @,
               !.user_bomb_used = IF user_move = "bomb" THEN TRUE ELSE @,
               !.bot_bomb_used = IF bot_move = "bomb" THEN TRUE ELSE @]

\* mutant: each flag is assigned whether the side played bomb this round
Mutant_UpdatedState_AssignFlags(st, winner, user_move, bot_move) ==
    [st EXCEPT !.round = st.round + 1,
               !.user_score = IF winner = "user" THEN @ + 1 ELSE @,
               !.bot_score = IF winner = "bot" THEN @ + 1 ELSE @,
               !.user_bomb_used = (user_move = "bomb"),
               !.bot_bomb_used = (bot_move = "bomb")]

\* mutant: the bot's bomb flag is set from the user's move (copied line)
Mutant_UpdatedState(st, winner, user_move, bot_move) ==
    [st EXCEPT !.round = st.round + 1,
               !.user_score = IF winner = "user" THEN @ + 1 ELSE @,
               !.bot_score = IF winner = "bot" THEN @ + 1 ELSE @,
               !.user_bomb_used = IF user_move = "bomb" THEN TRUE ELSE @,
               !.bot_bomb_used = IF user_move = "bomb" THEN TRUE ELSE @]

\* the state dict after update_game_state_tool
UpdatedState(st, winner, user_move, bot_move) ==
    [st EXCEPT !.round = st.round + 1,
               !.user_score = IF winner = "user" THEN @ + 1 ELSE @,
               !.bot_score = IF winner = "bot" THEN @ + 1 ELSE @,
               !.user_bomb_used = IF user_move = "bomb" THEN TRUE ELSE @,
               !.bot_bomb_used = IF bot_move = "bomb" THEN TRUE ELSE @]

\* mutant: the record keeps the round number from before the increment
Mutant_HistoryRecord(st, winner, user_move, bot_move, reason) ==
    [round |-> st.round, user_move |-> user_move, bot_move |-> bot_move,
     winner |-> winner, reason |-> reason]

\* the record update_game_state_tool appends to the history list
HistoryRecord(st, winner, user_move, bot_move, reason) ==
    [round |-> st.round + 1, user_move |-> user_move, bot_move |-> bot_move,
     winner |-> winner, reason |-> reason]

\* the list heap after update_game_state_tool: the append goes to the list
\* object the state dict refers to ("history" is always a key of the dict)
UpdatedLists(ls, st, winner, user_move, bot_move, reason) ==
    [ls EXCEPT ![st.history] =
        Append(@, HistoryRecord(st, winner, user_move, bot_move, reason))]

\* mutant: the match ends only once round has passed MAX_ROUNDS (> for >=)
Mutant_check_game_end_tool(st) ==
    IF st.round > MAX_ROUNDS
    THEN [st EXCEPT !.game_over = TRUE,
                    !.winner = calculate_final_winner(st.user_score, st.bot_score)]
    ELSE st

\* the state dict after check_game_end_tool
check_game_end_tool(st) ==
    IF st.round >= MAX_ROUNDS
    THEN [st EXCEPT !.game_over = TRUE,
                    !.winner = calculate_final_winner(st.user_score, st.bot_score)]
    ELSE st

\* session.state after reset_game_tool
reset_game_tool == DictCopy(DEFAULT_STATE)

\* the dict get_game_state_tool returns
get_game_state_tool(st, ls) ==
    [round |-> st.round, user_score |-> st.user_score,
     bot_score |-> st.bot_score, user_bomb_used |-> st.user_bomb_used,
     bot_bomb_used |-> st.bot_bomb_used, game_over |-> st.game_over,
     winner |-> st.winner, history |-> ls[st.history]]

(***************************************************************************)
(* main.py: GameSession, GameRefereeAgent.                                 *)
(***************************************************************************)
\* GameSession.__init__
NewSession == DictCopy(DEFAULT_STATE)

Agents == DOMAIN state

\* user_input.lower().strip(), as process_user_input compares it
\* (evaluated once per input text)
Command == [t \in InputTexts |-> strip(lower(t))]

IsQuit(user_input) ==
    \E w \in {"quit", "exit", "q"} : Command[user_input] = Spelling(w)

IsReset(user_input) ==
    \E w \in {"new game", "restart", "reset"} : Command[user_input] = Spelling(w)


\* process_user_input, branch "quit"
HandleQuit(a, user_input) ==
    /\ IsQuit(user_input)
    /\ response' = [agent |-> a, kind |-> "quit"]
    /\ UNCHANGED <<state, lists>>

\* process_user_input, branch "new game"
ResetGame(a, user_input) ==
    /\ ~IsQuit(user_input)
    /\ IsReset(user_input)
    /\ state' = [state EXCEPT ![a] = reset_game_tool]
    /\ response' = [agent |-> a, kind |-> "new_game"]
    /\ UNCHANGED lists

\* process_user_input, branch "game already over"
GameOverMenu(a, user_input) ==
    /\ ~IsQuit(user_input)
    /\ ~IsReset(user_input)
    /\ state[a].game_over
    /\ response' = [agent |-> a, kind |-> "game_over_menu"]
    /\ UNCHANGED <<state, lists>>

\* mutant: the forfeit branch does not look at game_over
Mutant_InvalidRound(a, user_input) ==
    /\ ~IsQuit(user_input)
    /\ ~IsReset(user_input)
    /\ LET validation == validate_move_tool(state[a], user_input)
       IN  /\ ~validation.valid
           /\ state' = [state EXCEPT ![a] =
                           UpdatedState(@, "bot", "invalid", "forfeit")]
           /\ lists' = UpdatedLists(lists, state[a], "bot", "invalid",
                                    "forfeit", validation.error)
    /\ response' = [agent |-> a, kind |-> "invalid"]

\* process_user_input, branch "validation failed": _handle_invalid_round
InvalidRound(a, user_input) ==
    /\ ~IsQuit(user_input)
    /\ ~IsReset(user_input)
    /\ ~state[a].game_over
    /\ LET validation == validate_move_tool(state[a], user_input)
       IN  /\ ~validation.valid
           /\ state' = [state EXCEPT ![a] =
                           UpdatedState(@, "bot", "invalid", "forfeit")]
           /\ lists' = UpdatedLists(lists, state[a], "bot", "invalid",
                                    "forfeit", validation.error)
    /\ response' = [agent |-> a, kind |-> "invalid"]

\* process_user_input, the played round: bot move, resolve, update, end check
PlayRound(a, user_input) ==
    /\ ~IsQuit(user_input)
    /\ ~IsReset(user_input)
    /\ ~state[a].game_over
    /\ LET validation == validate_move_tool(state[a], user_input)
       IN  /\ validation.valid
           /\ \E r \in RandomDraws, c \in 1..Len(normal_moves) :
                LET bot_move == generate_bot_move(state[a].user_bomb_used,
                                                  state[a].bot_bomb_used,
                                                  state[a].round, r, c)
                    round_result == resolve_round_tool(validation.move, bot_move)
                    updated == UpdatedState(state[a], round_result.winner,
                                            round_result.user_move,
                                            round_result.bot_move)
                    checked == check_game_end_tool(updated)
                IN  /\ state' = [state EXCEPT ![a] = checked]
                    /\ lists' = UpdatedLists(lists, state[a], round_result.winner,
                                             round_result.user_move,
                                             round_result.bot_move,
                                             round_result.reason)
                    /\ response' = [agent |-> a,
                                    kind |-> IF checked.game_over
                                             THEN "game_over" ELSE "round"]

(***************************************************************************)
(* Specifications.  Spec: one agent, as run_cli constructs it.  MultiSpec: *)
(* NumAgents agents in one process, operated in any interleaving.          *)
(***************************************************************************)
NoResponse == [agent |-> 0, kind |-> "none"]

Init ==
    /\ state = [a \in {1} |-> NewSession]
    /\ lists = [l \in {DefaultHistoryList} |-> <<>>]
    /\ response = NoResponse

\* the model has room for one more record in agent a's history list
Room(a, max) == Len(lists[state[a].history]) < max

\* one call of process_user_input, by any agent with any text
Next ==
    \/ \E a \in Agents, user_input \in InputTexts : HandleQuit(a, user_input)
    \/ \E a \in Agents, user_input \in InputTexts : ResetGame(a, user_input)
    \/ \E a \in Agents, user_input \in InputTexts : GameOverMenu(a, user_input)
    \/ \E a \in Agents, user_input \in InputTexts :
          Room(a, MaxHistory) /\ InvalidRound(a, user_input)
    \/ \E a \in Agents, user_input \in InputTexts :
          Room(a, MaxPlayed) /\ PlayRound(a, user_input)

Spec == Init /\ [][Next]_vars

MultiInit ==
    /\ state = [a \in 1..NumAgents |-> NewSession]
    /\ lists = [l \in {DefaultHistoryList} |-> <<>>]
    /\ response = NoResponse

MultiNext ==
    \/ \E a \in Agents, user_input \in InputTexts : HandleQuit(a, user_input)
    \/ \E a \in Agents, user_input \in InputTexts : ResetGame(a, user_input)
    \/ \E a \in Agents, user_input \in InputTexts : GameOverMenu(a, user_input)
    \/ \E a \in Agents, user_input \in InputTexts :
          Room(a, MaxSharedHistory) /\ InvalidRound(a, user_input)
    \/ \E a \in Agents, user_input \in InputTexts :
          Room(a, MaxSharedHistory) /\ PlayRound(a, user_input)

MultiSpec == MultiInit /\ [][MultiNext]_vars

(***************************************************************************)
(* ToolSpec: the calls of process_user_input, and get_game_state_tool      *)
(* called on an agent's session between them.                              *)
(***************************************************************************)
\* mutant: the state is initialised whether or not it is empty
Mutant_GetGameState(a) ==
    /\ state' = [state EXCEPT ![a] = DictCopy(DEFAULT_STATE)]
    /\ response' = [agent |-> a, kind |-> "state",
                    result |-> get_game_state_tool(state'[a], lists)]
    /\ UNCHANGED lists

\* get_game_state_tool(a.session): "if not session.state" initialises an
\* empty state dict, then the view of the state is returned
GetGameState(a) ==
    /\ state' = IF DOMAIN state[a] = {}
                THEN [state EXCEPT ![a] = DictCopy(DEFAULT_STATE)]
                ELSE state
    /\ response' = [agent |-> a, kind |-> "state",
                    result |-> get_game_state_tool(state'[a], lists)]
    /\ UNCHANGED lists

ToolNext ==
    \/ \E a \in Agents, user_input \in InputTexts : HandleQuit(a, user_input)
    \/ \E a \in Agents, user_input \in InputTexts : ResetGame(a, user_input)
    \/ \E a \in Agents, user_input \in InputTexts : GameOverMenu(a, user_input)
    \/ \E a \in Agents, user_input \in InputTexts :
          Room(a, MaxToolHistory) /\ InvalidRound(a, user_input)
    \/ \E a \in Agents, user_input \in InputTexts :
          Room(a, MaxToolHistory) /\ PlayRound(a, user_input)
    \/ \E a \in Agents : GetGameState(a)

ToolSpec == Init /\ [][ToolNext]_vars

(***************************************************************************)
(* ValidateSpec: the calls of process_user_input in matches where the      *)
(* user's moves are bombs, commands and unrecognised text, and             *)
(* validate_move_tool called on an agent's session between them.           *)
(***************************************************************************)
\* validate_move_tool(a.session, move) called on its own: the same prologue,
\* then the validation result is returned
ValidateMove(a, move) ==
    /\ state' = IF DOMAIN state[a] = {}
                THEN [state EXCEPT ![a] = DictCopy(DEFAULT_STATE)]
                ELSE state
    /\ response' = [agent |-> a, kind |-> "validate", move |-> move,
                    result |-> validate_move_tool(state'[a], move)]
    /\ UNCHANGED lists

\* the texts submitted to process_user_input in this specification: every
\* input text but the classic moves, so that the bomb is the user's only valid
\* move (validate_move_tool itself is called with every input text)
BombMatchTexts ==
    {t \in InputTexts : Normalized[t] \notin {"rock", "paper", "scissors"}}

ValidateNext ==
    \/ \E a \in Agents, user_input \in BombMatchTexts : HandleQuit(a, user_input)
    \/ \E a \in Agents, user_input \in BombMatchTexts : ResetGame(a, user_input)
    \/ \E a \in Agents, user_input \in BombMatchTexts : GameOverMenu(a, user_input)
    \/ \E a \in Agents, user_input \in BombMatchTexts :
          Room(a, MaxValidateHistory) /\ InvalidRound(a, user_input)
    \/ \E a \in Agents, user_input \in BombMatchTexts :
          Room(a, MaxValidateHistory) /\ PlayRound(a, user_input)
    \/ \E a \in Agents, move \in InputTexts : ValidateMove(a, move)

ValidateSpec == Init /\ [][ValidateNext]_vars

(***************************************************************************)
(* RulesSpec: the pure functions of game_logic.py called with every        *)
(* argument of a bounded set; response holds the arguments and the result. *)
(***************************************************************************)
Moves == {VALID_MOVES[i] : i \in 1..Len(VALID_MOVES)}

\* determine_winner(user_move, bot_move), for any two moves
CallDetermineWinner ==
    \E user_move \in Moves, bot_move \in Moves :
        /\ response' = [agent |-> 0, kind |-> "determine_winner",
                        args |-> <<user_move, bot_move>>,
                        result |-> determine_winner(user_move, bot_move)]
        /\ UNCHANGED <<state, lists>>

\* generate_bot_move(user_bomb_used, bot_bomb_used, current_round), for any
\* flags, round index, random draw and random choice
CallGenerateBotMove ==
    \E user_bomb_used \in BOOLEAN, bot_bomb_used \in BOOLEAN,
       current_round \in 0..MaxRoundIndex,
       r \in RandomDraws, c \in 1..Len(normal_moves) :
        /\ response' = [agent |-> 0, kind |-> "generate_bot_move",
                        args |-> <<user_bomb_used, bot_bomb_used, current_round, r, c>>,
                        result |-> generate_bot_move(user_bomb_used, bot_bomb_used,
                                                     current_round, r, c)]
        /\ UNCHANGED <<state, lists>>

RulesNext ==
    \/ CallDetermineWinner
    \/ CallGenerateBotMove

RulesSpec == Init /\ [][RulesNext]_vars

TypeOK ==
    /\ \A a \in Agents :
         /\ state[a].round \in 0..MaxHistory
         /\ state[a].user_score \in 0..MaxHistory
         /\ state[a].bot_score \in 0..MaxHistory
         /\ state[a].winner \in {None, "user", "bot", "tie"}
         /\ state[a].history = DefaultHistoryList
    /\ Len(lists[DefaultHistoryList]) <= MaxHistory
    /\ response.kind \in {"none", "quit", "new_game", "game_over_menu",
                         "invalid", "round", "game_over"}

(***************************************************************************)
(* Vocabulary of the properties.  A step is one call of process_user_input *)
(* by the agent named in response'; its kind tells the branch taken.       *)
(***************************************************************************)
\* the read-only view of agent a's match
snapshot(a) == get_game_state_tool(state[a], lists)

\* this step is a call by agent a
CallBy(a) == response'.agent = a

\* this step is a reset of agent a's match
ResetBy(a) == CallBy(a) /\ response'.kind = "new_game"

\* this step is a submit_move of agent a (a move text, valid or not)
SubmitBy(a) ==
    CallBy(a) /\ response'.kind \in {"round", "game_over", "invalid", "game_over_menu"}

\* this step played or forfeited a round of agent a
RoundBy(a) == CallBy(a) /\ response'.kind \in {"round", "game_over", "invalid"}

(***************************************************************************)
(* C1.  From a fresh match, after exactly MAX_ROUNDS submit_move calls,    *)
(* valid or forfeit, game_over is true and no further submit_move plays a  *)
(* round: the step that brings round to MAX_ROUNDS sets game_over, and no  *)
(* round is played or forfeited from round = MAX_ROUNDS.                   *)
(***************************************************************************)
C1_MatchEndsAfterMaxRounds ==
    [][\A a \in Agents :
         /\ (RoundBy(a) /\ state'[a].round = MAX_ROUNDS) => state'[a].game_over
         /\ state[a].round = MAX_ROUNDS => ~RoundBy(a)]_vars

(***************************************************************************)
(* C2.  round stays within 0..MAX_ROUNDS, and only a reset decreases it.   *)
(***************************************************************************)
C2_RoundBoundedMonotonic ==
    [][\A a \in Agents :
         /\ state'[a].round \in 0..MAX_ROUNDS
         /\ state'[a].round < state[a].round => ResetBy(a)]_vars

(***************************************************************************)
(* C3.  Between operations, game_over is true iff round = MAX_ROUNDS.      *)
(***************************************************************************)
C3_GameOverIffMaxRounds ==
    \A a \in Agents : state[a].game_over <=> state[a].round = MAX_ROUNDS

(***************************************************************************)
(* C4.  After every operation the number of history records equals round.  *)
(***************************************************************************)
C4_HistoryLengthIsRound ==
    \A a \in Agents : Len(snapshot(a).history) = state[a].round

(***************************************************************************)
(* C5.  reset, in any state, leaves a match whose snapshot is round 0,     *)
(* scores 0/0, bomb flags false, game_over false, winner unset and history *)
(* empty (so that a second reset gives the same state).                    *)
(***************************************************************************)
FreshSnapshot ==
    [round |-> 0, user_score |-> 0, bot_score |-> 0,
     user_bomb_used |-> FALSE, bot_bomb_used |-> FALSE,
     game_over |-> FALSE, winner |-> None, history |-> <<>>]

C5_ResetYieldsFreshSnapshot ==
    [][\A a \in Agents : ResetBy(a) => snapshot(a)' = FreshSnapshot]_vars

(***************************************************************************)
(* C6.  Matches that exist at the same time own their state: a call on one *)
(* match changes nothing a snapshot of another match shows.                *)
(***************************************************************************)
C6_MatchesAreIndependent ==
    [][\A a, b \in Agents :
         (a # b /\ CallBy(a)) => snapshot(b)' = snapshot(b)]_vars

(***************************************************************************)
(* C7.  Each side's bomb-used flag is true iff some record of the current  *)
(* history has bomb as that side's move.                                   *)
(***************************************************************************)
C7_BombFlagsMatchHistory ==
    \A a \in Agents :
        LET h == snapshot(a).history
        IN  /\ state[a].user_bomb_used <=> \E i \in 1..Len(h) : h[i].user_move = "bomb"
            /\ state[a].bot_bomb_used <=> \E i \in 1..Len(h) : h[i].bot_move = "bomb"

(***************************************************************************)
(* C8.  winner is set iff game_over is true, and when set it is the side   *)
(* with the strictly higher score, or tie when the scores are equal.       *)
(***************************************************************************)
C8_WinnerIffGameOver ==
    \A a \in Agents :
        LET st == state[a]
        IN  /\ st.winner # None <=> st.game_over
            /\ st.winner = "user" => st.user_score > st.bot_score
            /\ st.winner = "bot" => st.bot_score > st.user_score
            /\ st.winner = "tie" => st.user_score = st.bot_score

\* a match that ended in a tie after both sides scored
C8_Witness ==
    \E a \in Agents :
        /\ state[a].game_over
        /\ state[a].winner = "tie"
        /\ state[a].user_score = state[a].bot_score
        /\ state[a].user_score > 0

(***************************************************************************)
(* C9.  Once game_over is true, a submit_move (valid or invalid text)      *)
(* is answered with the game-over menu and leaves round, scores, bomb      *)
(* flags, game_over, winner and history unchanged; game_over stays true    *)
(* until a reset, the only step that leaves the complete state.            *)
(***************************************************************************)
C9_CompleteMatchIsFrozen ==
    [][\A a \in Agents :
         state[a].game_over =>
             /\ SubmitBy(a) => /\ response'.kind = "game_over_menu"
                               /\ state'[a] = state[a]
                               /\ snapshot(a)' = snapshot(a)
             /\ ~state'[a].game_over => ResetBy(a)]_vars

\* a move was submitted to a complete match
C9_Witness ==
    \E a \in Agents :
        /\ state[a].game_over
        /\ response = [agent |-> a, kind |-> "game_over_menu"]

(***************************************************************************)
(* C10.  Within one match the player's bomb is resolved as a real bomb     *)
(* round at most once: a submit_move whose text normalizes to bomb while   *)
(* user_bomb_used is true is a forfeit (no opponent move, player score     *)
(* unchanged, opponent credited the round), and no round played while      *)
(* user_bomb_used is true records bomb as the player's move.               *)
(***************************************************************************)
BombTexts == {t \in InputTexts : Normalized[t] = "bomb"}

LastRecord(h) == h[Len(h)]

C10_SecondBombIsForfeit ==
    [][\A a \in Agents :
         state[a].user_bomb_used =>
             /\ RoundBy(a) => LastRecord(snapshot(a).history').user_move # "bomb"
             /\ \A t \in BombTexts :
                  (PlayRound(a, t) \/ InvalidRound(a, t)) =>
                      /\ state'[a].user_score = state[a].user_score
                      /\ state'[a].bot_score = state[a].bot_score + 1
                      /\ state'[a].round = state[a].round + 1
                      /\ LastRecord(snapshot(a).history') =
                            [round |-> state[a].round + 1,
                             user_move |-> "invalid", bot_move |-> "forfeit",
                             winner |-> "bot", reason |-> <<"BombAlreadyUsed">>]]_vars

\* the player's second bomb of a match was forfeited
C10_Witness ==
    \E a \in Agents :
        /\ state[a].user_bomb_used
        /\ response = [agent |-> a, kind |-> "invalid"]
        /\ snapshot(a).history # <<>>
        /\ LastRecord(snapshot(a).history).reason = <<"BombAlreadyUsed">>

(***************************************************************************)
(* C11.  A forfeit (a text that is no recognized move, submitted to a      *)
(* match that is not over) is a defined outcome: round and bot_score       *)
(* increase by exactly 1, user_score and both bomb flags are unchanged, no *)
(* opponent move is generated, and one record is appended whose opponent   *)
(* move is the forfeit sentinel and whose winner is the bot.               *)
(***************************************************************************)
UnknownTexts ==
    {t \in InputTexts : Normalized[t] = None /\ ~IsQuit(t) /\ ~IsReset(t)}

C11_ForfeitIsDefinedOutcome ==
    [][\A a \in Agents, t \in UnknownTexts :
         (~state[a].game_over /\ (InvalidRound(a, t) \/ PlayRound(a, t))) =>
             /\ response' = [agent |-> a, kind |-> "invalid"]
             /\ state'[a].round = state[a].round + 1
             /\ state'[a].bot_score = state[a].bot_score + 1
             /\ state'[a].user_score = state[a].user_score
             /\ state'[a].user_bomb_used = state[a].user_bomb_used
             /\ state'[a].bot_bomb_used = state[a].bot_bomb_used
             /\ snapshot(a).history' =
                   Append(snapshot(a).history,
                          [round |-> state[a].round + 1,
                           user_move |-> "invalid", bot_move |-> "forfeit",
                           winner |-> "bot",
                           reason |-> <<"InvalidMove", t>>])]_vars

\* an unknown word was forfeited in the second round of a match
C11_Witness ==
    \E a \in Agents :
        /\ response = [agent |-> a, kind |-> "invalid"]
        /\ state[a].round = 2
        /\ snapshot(a).history # <<>>
        /\ LastRecord(snapshot(a).history).reason[1] = "InvalidMove"
        /\ LastRecord(snapshot(a).history).bot_move = "forfeit"

(***************************************************************************)
(* C13.  A valid round applies its outcome as one unit: round increases by *)
(* exactly 1; exactly the winning side's score increases by 1 and on a     *)
(* draw neither score changes; the bomb flag of each side that played bomb *)
(* becomes true and the flag of a side that did not is unchanged; one      *)
(* record with both moves and the winner is appended.                      *)
(***************************************************************************)
\* this step played a valid round of agent a
PlayedBy(a) == CallBy(a) /\ response'.kind \in {"round", "game_over"}

C13_ValidRoundAppliesOutcome ==
    [][\A a \in Agents :
         PlayedBy(a) =>
             LET rec == LastRecord(snapshot(a).history')
             IN  /\ snapshot(a).history' = Append(snapshot(a).history, rec)
                 /\ rec.round = state[a].round + 1
                 /\ rec.user_move \in Moves
                 /\ rec.bot_move \in Moves
                 /\ rec.winner \in {"user", "bot", "draw"}
                 /\ state'[a].round = state[a].round + 1
                 /\ state'[a].user_score =
                       state[a].user_score + (IF rec.winner = "user" THEN 1 ELSE 0)
                 /\ state'[a].bot_score =
                       state[a].bot_score + (IF rec.winner = "bot" THEN 1 ELSE 0)
                 /\ state'[a].user_bomb_used =
                       (state[a].user_bomb_used \/ rec.user_move = "bomb")
                 /\ state'[a].bot_bomb_used =
                       (state[a].bot_bomb_used \/ rec.bot_move = "bomb")]_vars

\* a round the bot won with its bomb against a classic move
C13_Witness ==
    \E a \in Agents :
        /\ response = [agent |-> a, kind |-> "round"]
        /\ snapshot(a).history # <<>>
        /\ LastRecord(snapshot(a).history).user_move = "rock"
        /\ LastRecord(snapshot(a).history).bot_move = "bomb"
        /\ state[a].bot_bomb_used
        /\ ~state[a].user_bomb_used
        /\ state[a].bot_score = 1

(***************************************************************************)
(* C12.  Whatever is submitted, a match whose caller keeps calling         *)
(* submit_move progresses to completion.  As a property a finite run can   *)
(* refute: every round played or forfeited either completes the match or   *)
(* leaves fewer than MAX_ROUNDS rounds consumed, so that MAX_ROUNDS calls  *)
(* always reach game_over.                                                 *)
(***************************************************************************)
C12_EveryRoundProgressesToCompletion ==
    [][\A a \in Agents :
         RoundBy(a) => (state'[a].game_over \/ state'[a].round < MAX_ROUNDS)]_vars

(***************************************************************************)
(* C14.  resolve applies the bomb rules first: bomb against bomb is a      *)
(* draw, exactly one bomb wins for the side that played it whatever the    *)
(* other move is, and bomb_used is true exactly when a move is bomb.       *)
(***************************************************************************)
C14_BombRulesFirst ==
    response.kind = "determine_winner" =>
        LET u == response.args[1]
            b == response.args[2]
            res == response.result
        IN  /\ (u = "bomb" /\ b = "bomb") => res.winner = "draw"
            /\ (u = "bomb" /\ b # "bomb") => res.winner = "user"
            /\ (u # "bomb" /\ b = "bomb") => res.winner = "bot"
            /\ res.bomb_used <=> (u = "bomb" \/ b = "bomb")

\* the bot's bomb resolved against the user's paper
C14_Witness ==
    /\ response.kind = "determine_winner"
    /\ response.args = <<"paper", "bomb">>
    /\ response.result.winner = "bot"
    /\ response.result.bomb_used

(***************************************************************************)
(* C15.  resolve is total over the 16 pairs and, for two non-bomb moves,   *)
(* is a draw when they are equal and otherwise a win of the side whose     *)
(* move beats the other (rock beats scissors, scissors beats paper, paper  *)
(* beats rock), with bomb_used false; the last branch is taken only when   *)
(* the bot's move beats the user's.                                        *)
(***************************************************************************)
Beats(x, y) ==
    <<x, y>> \in {<<"rock", "scissors">>, <<"scissors", "paper">>, <<"paper", "rock">>}

C15_ClassicRulesTotal ==
    response.kind = "determine_winner" =>
        LET u == response.args[1]
            b == response.args[2]
            res == response.result
        IN  /\ res.winner \in {"user", "bot", "draw"}
            /\ (u # "bomb" /\ b # "bomb") =>
                  /\ res.winner = "draw" <=> u = b
                  /\ res.winner = "user" <=> Beats(u, b)
                  /\ res.winner = "bot" <=> Beats(b, u)
                  /\ ~res.bomb_used

\* scissors against rock: the last branch of determine_winner, won by the bot
C15_Witness ==
    /\ response.kind = "determine_winner"
    /\ response.args = <<"scissors", "rock">>
    /\ response.result.winner = "bot"
    /\ ~response.result.bomb_used

(***************************************************************************)
(* C16.  For non-bomb moves a and b: a win of one side in resolve(a, b) is *)
(* a win of the other side in resolve(b, a), resolve(a, b) is a draw       *)
(* exactly when resolve(b, a) is, and resolve(a, a) is a draw.             *)
(***************************************************************************)
OtherSide(w) == CASE w = "user" -> "bot" [] w = "bot" -> "user" [] OTHER -> w

C16_ResolveIsAntisymmetric ==
    response.kind = "determine_winner" =>
        LET u == response.args[1]
            b == response.args[2]
            res == response.result
        IN  (u # "bomb" /\ b # "bomb") =>
               /\ determine_winner(b, u).winner = OtherSide(res.winner)
               /\ res.winner = "draw" <=> determine_winner(b, u).winner = "draw"
               /\ u = b => res.winner = "draw"

\* paper against rock, won by the user (and rock against paper by the bot)
C16_Witness ==
    /\ response.kind = "determine_winner"
    /\ response.args = <<"paper", "rock">>
    /\ response.result.winner = "user"

(***************************************************************************)
(* C17.  The opponent plays bomb at most once per match: a round played    *)
(* while bot_bomb_used is true records rock, paper or scissors as the      *)
(* bot's move, and generate_bot_move yields no bomb when bot_bomb_used is  *)
(* true, for every round index and every value of user_bomb_used.          *)
(***************************************************************************)
ClassicMoves == {normal_moves[i] : i \in 1..Len(normal_moves)}

C17_BotBombAtMostOnce ==
    [][/\ \A a \in Agents :
            (PlayedBy(a) /\ state[a].bot_bomb_used) =>
                LastRecord(snapshot(a).history').bot_move \in ClassicMoves
       /\ \A user_bomb_used \in BOOLEAN, current_round \in 0..MaxRoundIndex,
             r \in RandomDraws, c \in 1..Len(normal_moves) :
            generate_bot_move(user_bomb_used, TRUE, current_round, r, c)
                \in ClassicMoves]_vars

\* a round played after the bot had used its bomb
C17_Witness ==
    \E a \in Agents :
        /\ response.agent = a
        /\ response.kind \in {"round", "game_over"}
        /\ Len(snapshot(a).history) = state[a].round
        /\ state[a].round >= 2
        /\ snapshot(a).history[1].bot_move = "bomb"
        /\ LastRecord(snapshot(a).history).bot_move \in ClassicMoves
        /\ LastRecord(snapshot(a).history).user_move \in Moves

(***************************************************************************)
(* C19.  The moves the opponent can produce depend only on                 *)
(* (user_bomb_used, bot_bomb_used, round index): bomb is possible exactly  *)
(* when bot_bomb_used is false and the round index is 0 or 1, or is 2 with *)
(* user_bomb_used false; rock, paper and scissors are always possible.     *)
(***************************************************************************)
PossibleBotMoves(user_bomb_used, bot_bomb_used, current_round) ==
    {generate_bot_move(user_bomb_used, bot_bomb_used, current_round, r, c) :
        r \in RandomDraws, c \in 1..Len(normal_moves)}

ClaimedBotMoves(user_bomb_used, bot_bomb_used, current_round) ==
    {"rock", "paper", "scissors"} \cup
    (IF /\ ~bot_bomb_used
        /\ \/ current_round \in {0, 1}
           \/ current_round = 2 /\ ~user_bomb_used
     THEN {"bomb"} ELSE {})

C19_BotMoveSet ==
    response.kind = "generate_bot_move" =>
        LET ubu == response.args[1]
            bbu == response.args[2]
            rd == response.args[3]
        IN  /\ response.result \in ClaimedBotMoves(ubu, bbu, rd)
            /\ PossibleBotMoves(ubu, bbu, rd) = ClaimedBotMoves(ubu, bbu, rd)

\* final round, the user's bomb used, the bot's not: a draw of 10 that would
\* pick bomb were the user's bomb unused yields a classic move
C19_Witness ==
    /\ response.kind = "generate_bot_move"
    /\ response.args[1] = TRUE
    /\ response.args[2] = FALSE
    /\ response.args[3] = 2
    /\ response.args[4] = 10
    /\ response.result \in ClassicMoves

(***************************************************************************)
(* C18.  snapshot is read-only: get_game_state_tool can be called in every *)
(* state, returns the current round, scores, bomb flags, game_over, winner *)
(* and history, and leaves the match state and the history unchanged.      *)
(***************************************************************************)
C18_SnapshotIsReadOnly ==
    [][\A a \in Agents :
         /\ ENABLED GetGameState(a)
         /\ (CallBy(a) /\ response'.kind = "state") =>
                /\ response'.result.round = state[a].round
                /\ response'.result.user_score = state[a].user_score
                /\ response'.result.bot_score = state[a].bot_score
                /\ response'.result.user_bomb_used = state[a].user_bomb_used
                /\ response'.result.bot_bomb_used = state[a].bot_bomb_used
                /\ response'.result.game_over = state[a].game_over
                /\ response'.result.winner = state[a].winner
                /\ response'.result.history = lists[state[a].history]
                /\ state' = state
                /\ lists' = lists]_vars

\* a snapshot taken of a complete match
C18_Witness ==
    \E a \in Agents :
        /\ response.agent = a
        /\ response.kind = "state"
        /\ response.result.game_over
        /\ response.result.round = MAX_ROUNDS
        /\ response.result.winner # None
        /\ Len(response.result.history) = MAX_ROUNDS
        /\ state[a].game_over

(***************************************************************************)
(* C20.  History is append-only within a match and cleared on reset: every *)
(* submit_move that plays or forfeits a round adds exactly one record at   *)
(* the end and leaves the earlier records as they were, and after a reset  *)
(* the history is empty.                                                   *)
(***************************************************************************)
C20_HistoryAppendOnlyClearedOnReset ==
    [][\A a \in Agents :
         /\ RoundBy(a) =>
               /\ Len(snapshot(a).history') = Len(snapshot(a).history) + 1
               /\ SubSeq(snapshot(a).history', 1, Len(snapshot(a).history))
                      = snapshot(a).history
         /\ ResetBy(a) => Len(snapshot(a).history') = 0]_vars

(***************************************************************************)
(* C21.  Each bomb-used flag is permanent within a match: a step that      *)
(* takes user_bomb_used or bot_bomb_used from true to false is a reset; no *)
(* round played, forfeit, game-over menu, quit or snapshot does it.        *)
(***************************************************************************)
C21_BombFlagsPermanent ==
    [][\A a \in Agents :
         /\ (state[a].user_bomb_used /\ ~state'[a].user_bomb_used) => ResetBy(a)
         /\ (state[a].bot_bomb_used /\ ~state'[a].bot_bomb_used) => ResetBy(a)]_vars

\* both bombs used in the first round, and a later round of the same match
\* played with classic moves: both flags still true
C21_Witness ==
    \E a \in Agents :
        /\ response.agent = a
        /\ response.kind \in {"round", "game_over"}
        /\ state[a].round >= 2
        /\ Len(snapshot(a).history) = state[a].round
        /\ snapshot(a).history[1].user_move = "bomb"
        /\ snapshot(a).history[1].bot_move = "bomb"
        /\ LastRecord(snapshot(a).history).user_move \in ClassicMoves
        /\ LastRecord(snapshot(a).history).bot_move \in ClassicMoves
        /\ state[a].user_bomb_used
        /\ state[a].bot_bomb_used

(***************************************************************************)
(* C22.  In a match whose rounds so far were all played with valid moves   *)
(* (no forfeit), game_over is false after the first and the second round   *)
(* and true after the third, with round equal to MAX_ROUNDS and winner the *)
(* side with the higher score at that moment, or tie.                      *)
(***************************************************************************)
\* the records of agent a's current match: the last `round` records of its
\* history list
MatchRecords(a) ==
    LET h == snapshot(a).history
        n == state[a].round
    IN  SubSeq(h, Len(h) - n + 1, Len(h))

NoForfeit(a) ==
    /\ state[a].round <= Len(snapshot(a).history)
    /\ \A i \in 1..state[a].round : MatchRecords(a)[i].bot_move # "forfeit"

C22_ValidMatchEndsOnThirdMove ==
    \A a \in Agents :
        NoForfeit(a) =>
            /\ state[a].round <= MAX_ROUNDS
            /\ state[a].game_over <=> state[a].round = MAX_ROUNDS
            /\ state[a].game_over =>
                  state[a].winner =
                      IF state[a].user_score > state[a].bot_score THEN "user"
                      ELSE IF state[a].bot_score > state[a].user_score THEN "bot"
                      ELSE "tie"
            /\ ~state[a].game_over => state[a].winner = None

\* the third valid move has just ended a match the user won 2-1
C22_Witness ==
    \E a \in Agents :
        /\ response = [agent |-> a, kind |-> "game_over"]
        /\ NoForfeit(a)
        /\ state[a].round = MAX_ROUNDS
        /\ state[a].game_over
        /\ state[a].user_score = 2
        /\ state[a].bot_score = 1
        /\ state[a].winner = "user"

(***************************************************************************)
(* C23.  After every operation both scores are non-negative, their sum is  *)
(* at most round, round minus the sum is the number of drawn rounds of the *)
(* match, and a step that decreases a score is a reset.                    *)
(***************************************************************************)
Draws(a) ==
    Cardinality({i \in 1..state[a].round : MatchRecords(a)[i].winner = "draw"})

C23_ScoresBoundedByRound ==
    [][\A a \in Agents :
         /\ state'[a].user_score >= 0
         /\ state'[a].bot_score >= 0
         /\ state'[a].user_score + state'[a].bot_score <= state'[a].round
         /\ state'[a].round - (state'[a].user_score + state'[a].bot_score) = Draws(a)'
         /\ state'[a].user_score < state[a].user_score => ResetBy(a)
         /\ state'[a].bot_score < state[a].bot_score => ResetBy(a)]_vars

\* a match of one forfeit, one draw and one round won by the user
C23_Witness ==
    \E a \in Agents :
        /\ state[a].round = 3
        /\ Len(snapshot(a).history) = 3
        /\ state[a].user_score = 1
        /\ state[a].bot_score = 1
        /\ Draws(a) = 1
        /\ \E i \in 1..3 : snapshot(a).history[i].bot_move = "forfeit"

(***************************************************************************)
(* C24.  Validating a move never changes the match state, and the user's   *)
(* bomb is accepted as a real move whenever user_bomb_used is false: the   *)
(* validation returns valid with move bomb, and process_user_input plays   *)
(* the round with the user's bomb, also in a new match started by reset    *)
(* after a match in which the user had used bomb.                          *)
(***************************************************************************)
C24_ValidationPureBombAccepted ==
    [][\A a \in Agents :
         /\ (CallBy(a) /\ response'.kind = "validate") =>
               /\ state' = state
               /\ lists' = lists
               /\ (Normalized[response'.move] = "bomb" /\ ~state[a].user_bomb_used) =>
                     /\ response'.result.valid
                     /\ response'.result.move = "bomb"
                     /\ response'.result.error = None
         /\ \A t \in BombTexts :
               (/\ ~state[a].game_over
                /\ ~state[a].user_bomb_used
                /\ PlayRound(a, t) \/ InvalidRound(a, t)) =>
                   /\ PlayedBy(a)
                   /\ LastRecord(snapshot(a).history').user_move = "bomb"
                   /\ state'[a].user_bomb_used]_vars

\* the first round of a new match played with the user's bomb, after a match
\* in which the user had played bomb
C24_Witness ==
    \E a \in Agents :
        /\ response = [agent |-> a, kind |-> "round"]
        /\ state[a].round = 1
        /\ state[a].user_bomb_used
        /\ Len(snapshot(a).history) >= 2
        /\ LastRecord(snapshot(a).history).user_move = "bomb"
        /\ snapshot(a).history[1].user_move = "bomb"

====
